---------------------------- MODULE Spec2Model ----------------------------
(***************************************************************************)
(* A model of the CTMS+ middleware (app.js, libs.js): one HTTP request at  *)
(* a time travels through the createServer callback, handleRequest, the    *)
(* timeout timer and the outbound fetch() call.                            *)
(*                                                                         *)
(* Strings the code splits, joins or searches are sequences of tokens; a   *)
(* token is a run of characters the code never looks inside ("fithou"),    *)
(* or one of the separators it does look for ("=", "; ", ", ", ".", "/").  *)
(* JavaScript values that may be a string, an array, null or undefined are *)
(* records [t, v].                                                         *)
(***************************************************************************)
EXTENDS Integers, Sequences, FiniteSets, TLC

\* ------------------------------------------------------------------ bounds

\* The most header fields one inbound request carries.
MaxHeaders == 2
\* The most 'data' events one POST body arrives in.
MaxChunks == 32
\* The most Set-Cookie lines one upstream response carries.
MaxSetCookies == 2

\* ------------------------------------------------------- program constants

TIMEOUT == 120000
MaxPostLength == 1000000
IGNORE_HEADERS ==
    {"content-length", "location", "pragma",
     "access-control-allow-origin", "access-control-allow-headers"}
\* The literal of hostname.includes(...), as tokens.
DOMAIN_TOKENS == <<"fithou", ".", "net", ".", "vn">>

\* ------------------------------------------------------ JavaScript values

Undefined == [t |-> "undefined", v |-> <<>>]
Null == [t |-> "null", v |-> <<>>]
Str(s) == [t |-> "string", v |-> s]
\* An array of one-token strings.
Arr(a) == [t |-> "array", v |-> a]

\* ToBoolean: "", null and undefined are falsy; any array is truthy.
Truthy(x) == x.t = "array" \/ (x.t = "string" /\ x.v # <<>>)

RECURSIVE JoinTokens(_, _)
JoinTokens(a, sep) ==
    IF a = <<>> THEN <<>>
    ELSE IF Len(a) = 1 THEN <<a[1]>>
    ELSE <<a[1], sep>> \o JoinTokens(Tail(a), sep)

\* `${x}`: the string itself, "null", "undefined", or the elements joined by ",".
ToStr(x) ==
    CASE x.t = "string" -> x.v
      [] x.t = "array" -> JoinTokens(x.v, ",")
      [] x.t = "null" -> <<"null">>
      [] OTHER -> <<"undefined">>

\* ----------------------------------------------------------------- strings

\* String.prototype.includes: needle occurs as a contiguous run of s.
Includes(s, needle) ==
    \E i \in 1..(Len(s) - Len(needle) + 1) :
        SubSeq(s, i, i + Len(needle) - 1) = needle

\* The index of the first token sep in s, or 0.
RECURSIVE IndexOf(_, _, _)
IndexOf(s, sep, i) ==
    IF i > Len(s) THEN 0
    ELSE IF s[i] = sep THEN i
    ELSE IndexOf(s, sep, i + 1)

\* String.prototype.split: the pieces of s between the tokens sep.
RECURSIVE Split(_, _)
Split(s, sep) ==
    LET i == IndexOf(s, sep, 1) IN
    IF i = 0 THEN <<s>>
    ELSE <<SubSeq(s, 1, i - 1)>> \o Split(SubSeq(s, i + 1, Len(s)), sep)

\* Values joined by sep (node-fetch joins the values of one header name by ", ").
RECURSIVE JoinStrings(_, _)
JoinStrings(a, sep) ==
    IF a = <<>> THEN <<>>
    ELSE IF Len(a) = 1 THEN a[1]
    ELSE a[1] \o <<sep>> \o JoinStrings(Tail(a), sep)

\* URL.parse(url).hostname: the tokens between "http://" and the next "/",
\* null when the URL has no host.
UrlHostname(url) ==
    IF url = <<>> \/ url[1] # "http://" THEN Null
    ELSE LET rest == Tail(url)
             i == IndexOf(rest, "/", 1)
             host == IF i = 0 THEN rest ELSE SubSeq(rest, 1, i - 1)
         IN IF host = <<>> THEN Null ELSE Str(host)

\* ------------------------------------------------------------ header maps

Get(h, k) == IF k \in DOMAIN h THEN Str(h[k]) ELSE Undefined
Delete(h, k) == [n \in DOMAIN h \ {k} |-> h[n]]
Put(h, k, val) == [n \in DOMAIN h \cup {k} |-> IF n = k THEN val ELSE h[n]]

\* ------------------------------------------------ libs.js: query parameters

\* this.url.query[key]
QueryValue(query, key) == query[key]

\* API.getQuery(key, isNull = null)
getQuery(query, key) ==
    IF QueryValue(query, key).t # "string" THEN QueryValue(query, key) ELSE Null

\* ------------------------------------- app.js: the header transformation

\* let sessionCookieKey / sessionCookieValue: the control header when it is
\* truthy, else the optional query parameter.
SessionCookie(headers, query, header, param) ==
    IF Truthy(Get(headers, header)) THEN Get(headers, header)
    ELSE getQuery(query, param)

\* if (headers[name]) delete headers[name]
TakeControlHeader(headers, name) ==
    IF Truthy(Get(headers, name)) THEN Delete(headers, name) ELSE headers

\* if (headers[from]) { headers[to] = headers[from]; delete headers[from]; }
MoveHeader(headers, from, to) ==
    IF Truthy(Get(headers, from))
    THEN Delete(Put(headers, to, headers[from]), from)
    ELSE headers

\* The session cookie appended to, or set as, the cookie header.
InjectCookie(headers, key, val) ==
    IF Truthy(key) /\ Truthy(val) /\ val # Str(<<>>)
    THEN IF Truthy(Get(headers, "cookie"))
         THEN Put(headers, "cookie",
                  headers["cookie"] \o <<"; ">> \o ToStr(key) \o <<"=">> \o ToStr(val))
         ELSE Put(headers, "cookie", ToStr(key) \o <<"=">> \o ToStr(val))
    ELSE headers

\* FilterIgnored with "content-length" missing from the list it compares with.
FilterIgnoredNoLength(headers) ==
    [n \in DOMAIN headers \ (IGNORE_HEADERS \ {"content-length"}) |-> headers[n]]

\* for (let key of Object.keys(headers)) if (IGNORE_HEADERS.includes(key)) delete
FilterIgnored(headers) == [n \in DOMAIN headers \ IGNORE_HEADERS |-> headers[n]]

\* Lines 81-120: what handleRequest hands to fetch() as `headers`.
OutboundHeaders(headers, query) ==
    LET key == SessionCookie(headers, query, "session-cookie-key", "sesskey")
        val == SessionCookie(headers, query, "session-cookie-value", "sessval")
        h1 == TakeControlHeader(headers, "session-cookie-key")
        h2 == TakeControlHeader(h1, "session-cookie-value")
        h3 == MoveHeader(h2, "set-host", "host")
        h4 == MoveHeader(h3, "set-origin", "origin")
        h5 == MoveHeader(h4, "set-referer", "referer")
    IN FilterIgnored(InjectCookie(h5, key, val))

\* ------------------------------------- app.js: the response repackaging

\* for (let i of v) { let t = i.split("="); if (t[0] === key) { value = t[1]; break; } }
RECURSIVE FindCookie(_, _, _)
FindCookie(pieces, key, val) ==
    IF pieces = <<>> THEN val
    ELSE LET t == Split(Head(pieces), "=") IN
         IF Str(t[1]) = key
         THEN IF Len(t) >= 2 THEN Str(t[2]) ELSE Undefined
         ELSE FindCookie(Tail(pieces), key, val)

\* sessionCookieValue after the loop over the upstream headers.
ExtractSession(upHeaders, key, val) ==
    IF "set-cookie" \in DOMAIN upHeaders
    THEN FindCookie(Split(upHeaders["set-cookie"], "; "), key, val)
    ELSE val

\* responseHeaders after the loop over the upstream headers.
ResponseHeaders(upHeaders) ==
    [n \in DOMAIN upHeaders \ (IGNORE_HEADERS \cup {"content-type"}) |-> upHeaders[n]]

\* node-fetch's Headers iteration: one entry per name, the Set-Cookie lines of
\* the response joined by ", ".
FetchHeaders(plain, setCookies) ==
    IF setCookies = <<>> THEN plain
    ELSE Put(plain, "set-cookie", JoinStrings(setCookies, ", "))

\* ---------------------------------------------------- libs.js: exceptions

\* throw { code: 0, description: "API Stop Signal. This is not an error." }
StopSignal ==
    [name |-> "", codeIsNumber |-> TRUE, code |-> 0,
     message |-> "API Stop Signal. This is not an error.", isError |-> FALSE]

\* An Error the platform throws: its code, if any, is a string, and it has a stack.
PlatformError(name, message) ==
    [name |-> name, codeIsNumber |-> FALSE, code |-> 0, message |-> message,
     isError |-> TRUE]

\* An envelope's code: a number, or the name parseException falls back to.
Num(n) == [isNum |-> TRUE, n |-> n, s |-> ""]
Name(s) == [isNum |-> FALSE, n |-> 0, s |-> s]

\* parseException(error): code and description (status and data are unset on
\* every exception the program meets); the description of an Error ends with
\* the place its stack names.
parseException(error) ==
    [code |-> IF error.codeIsNumber THEN Num(error.code)
              ELSE IF error.name # "" THEN Name(error.name)
              ELSE Name("ERRR"),
     description |-> IF error.isError
                     THEN <<error.message, " tại ", "stack[1]">>
                     ELSE <<error.message>>]

\* --------------------------------------------------------------- inputs

Methods == {"GET", "POST", "OPTIONS"}
Pathnames == {"/api/middleware", "/api/ping", "/"}

\* Values of the `url` query parameter.
UrlValues ==
    {<<"http://", "fithou", ".", "net", ".", "vn", "/">>,
     <<"http://", "ctms", ".", "fithou", ".", "net", ".", "vn", "/">>,
     <<"http://", "fithou", ".", "net", ".", "vn", ".", "evil", ".", "com", "/">>,
     <<"http://", "evil", ".", "com", "/", "fithou", ".", "net", ".", "vn">>,
     <<"/", "page">>}

\* Values of the sesskey and sessval query parameters: absent (undefined),
\* given once (a string) or repeated (an array).
SesskeyValues == {Undefined, Str(<<"sid">>), Arr(<<"sid", "sid">>)}
SessvalValues == {Undefined, Str(<<"q1">>), Arr(<<"q1", "q2">>)}

\* Inbound header fields (Node lower-cases the names) and the values each takes.
HeaderValues(name) ==
    CASE name \in {"session-cookie-key"} -> {<<>>, <<"sid">>}
      [] name \in {"session-cookie-value"} -> {<<>>, <<"old">>}
      [] name \in {"set-host", "set-origin", "set-referer"} -> {<<>>, <<"ctms">>}
      [] name = "cookie" -> {<<"lang", "=", "vi">>}
      [] OTHER -> {<<"x">>}

HeaderNames ==
    {"session-cookie-key", "session-cookie-value", "set-host", "set-origin",
     "set-referer", "cookie", "host", "origin", "content-length"}

HeaderMaps ==
    UNION {{h \in [S -> UNION {HeaderValues(n) : n \in S}] :
                \A n \in S : h[n] \in HeaderValues(n)} :
           S \in {T \in SUBSET HeaderNames : Cardinality(T) <= MaxHeaders}}

\* Set-Cookie lines an upstream response may carry.
CookieLines ==
    {<<"sid", "=", "new">>,
     <<"sid", "=", "ab", "=", "cd">>,
     <<"lang", "=", "vi", "; ", "Path", "=", "/">>}

SetCookieLists ==
    UNION {[1..n -> CookieLines] : n \in 0..MaxSetCookies}

\* What an upstream answers with: a status, a set of other header fields, or
\* Set-Cookie lines beside a content type.
UpstreamResponses ==
    {[status |-> st, names |-> {}, cookies |-> <<>>] : st \in {200, 404}}
    \cup
    {[status |-> 200, names |-> ns, cookies |-> <<>>] :
        ns \in SUBSET {"content-type", "location", "date"}}
    \cup
    {[status |-> 200, names |-> {"content-type"}, cookies |-> cs] :
        cs \in SetCookieLists}

\* What the upstream does with one outbound call.
UpstreamModes == {"answer", "silent", "reject", "stall", "bodyfail"}

\* The sizes of the chunks a POST body arrives in: 64 KiB, as the socket
\* delivers them.
ChunkSizes == {65536}

\* The clock advances in steps of the timeout.
TickMs == TIMEOUT

\* ------------------------------------------------------------------ state

VARIABLES
    pc,                 \* where the request is: idle, receiving, fetching, reading, done
    request,            \* the inbound request: method, pathname, query, headers
    data,               \* the createServer callback's `data`: undefined, or its length
    chunks,             \* 'data' events delivered so far
    received,           \* characters of the body delivered so far
    response,           \* the http.ServerResponse
    respLog,            \* every call made on the response, in order
    sent,               \* api.sent
    stops,              \* the envelopes api.stop() handed to API.__stop
    unhandled,          \* an exception left handleRequest or an event handler
    fileRead,           \* the outcome of FS.readFileSync("default.html")
    outbound,           \* the fetch() calls issued
    timer,              \* cancelTimer: unset, armed, fired, cleared
    aborted,            \* controller.signal.aborted
    now,                \* milliseconds since the outbound call started
    upstream,           \* what the upstream does with the call
    sessionCookieKey,
    sessionCookieValue,
    sentHeaders,        \* handleRequest's `headers` once transformed
    m2sResponse,
    responseHeaders

reqVars == <<request, data, chunks, received>>
respVars == <<response, respLog, sent, stops, unhandled>>
fetchVars == <<outbound, timer, aborted, now, upstream, sessionCookieKey,
               sessionCookieValue, sentHeaders, m2sResponse, responseHeaders>>
vars == <<pc, reqVars, respVars, fileRead, fetchVars>>

NoHeaders == [n \in {} |-> <<>>]
NoData == [defined |-> FALSE, len |-> 0]
NoRequest ==
    [method |-> "GET", pathname |-> "/",
     query |-> [url |-> Undefined, sesskey |-> Undefined, sessval |-> Undefined],
     headers |-> NoHeaders]
NoResponse == [status |-> 0, headers |-> NoHeaders, raw |-> <<>>]
FreshResponse ==
    [headers |-> NoHeaders, headersSent |-> FALSE, statusCode |-> 0,
     finished |-> FALSE, body |-> [kind |-> "none"]]

\* --------------------------------------------- http.ServerResponse, API

\* An exception no frame carries.
NoError == PlatformError("", "")
HeadersSentError ==
    PlatformError("Error", "Cannot set headers after they are sent to the client")

\* The part of the state a run of synchronous code works on, and the
\* exception it is unwinding with, if any.
Frame(resp, log, snt, stp) ==
    [response |-> resp, log |-> log, sent |-> snt, stops |-> stp,
     thrown |-> FALSE, exc |-> NoError]
Throw(f, e) == [f EXCEPT !.thrown = TRUE, !.exc = e]
Caught(f) == [f EXCEPT !.thrown = FALSE, !.exc = NoError]

\* response.setHeader: throws once the headers have been sent.
setHeader(f, name, value) ==
    IF f.thrown THEN f
    ELSE IF f.response.headersSent
    THEN Throw([f EXCEPT !.log = Append(@, "setHeader")], HeadersSentError)
    ELSE [f EXCEPT !.log = Append(@, "setHeader"),
                   !.response.headers = Put(@, name, value)]

\* response.writeHead: throws once the headers have been sent.
writeHead(f, status) ==
    IF f.thrown THEN f
    ELSE IF f.response.headersSent
    THEN Throw([f EXCEPT !.log = Append(@, "writeHead")], HeadersSentError)
    ELSE [f EXCEPT !.log = Append(@, "writeHead"),
                   !.response.headersSent = TRUE,
                   !.response.statusCode = status]

\* response.end: the first one finishes the response.
responseEnd(f, body) ==
    IF f.thrown THEN f
    ELSE [f EXCEPT !.log = Append(@, "end"),
                   !.response = IF @.finished THEN @
                                ELSE [@ EXCEPT !.headersSent = TRUE,
                                               !.finished = TRUE,
                                               !.body = body]]

Envelope(code, description, status, dat) ==
    [kind |-> "json", code |-> code, status |-> status,
     description |-> description, data |-> dat]
NullData == [kind |-> "null"]

\* static API.__stop(response, code, description, status, data)
API_stop(f, env) ==
    LET f1 == setHeader(f, "Content-Type", <<"application/json">>)
        f2 == IF f1.thrown \/ "Access-Control-Allow-Origin" \in DOMAIN f1.response.headers
              THEN f1
              ELSE setHeader(f1, "Access-Control-Allow-Origin", <<"*">>)
    IN responseEnd(writeHead(f2, env.status), env)

\* stop without its `if (this.sent) return`.
stopUnguarded(f, env) ==
    IF f.thrown THEN f
    ELSE LET g == API_stop([f EXCEPT !.stops = Append(@, env)], env) IN
         IF g.thrown THEN g ELSE Throw([g EXCEPT !.sent = TRUE], StopSignal)

\* api.stop(code, description, status, data): nothing once sent; else the
\* envelope, this.sent = true and the stop signal thrown.
stop(f, env) ==
    IF f.thrown \/ f.sent THEN f
    ELSE LET g == API_stop([f EXCEPT !.stops = Append(@, env)], env) IN
         IF g.thrown THEN g ELSE Throw([g EXCEPT !.sent = TRUE], StopSignal)

\* api.errored(error)
errored(f, e) ==
    stop(f, Envelope(parseException(e).code, parseException(e).description, 500,
                     [kind |-> "stacktrace"]))

\* The catch taking every exception for the stop signal.
OuterCatchSwallowing(f) == IF ~f.thrown THEN f ELSE Caught(f)

\* handleRequest's catch (e): return when sent or on the stop signal, else
\* api.errored(e) with whatever that throws swallowed.
OuterCatch(f) ==
    IF ~f.thrown THEN f
    ELSE IF f.sent \/ (f.exc.codeIsNumber /\ f.exc.code = 0) THEN Caught(f)
    ELSE Caught(errored(Caught(f), f.exc))

\* ------------------------------------------------- app.js: handleRequest

\* Lines 47-53: the three CORS headers set before the try.
Begin(req, resp, log) ==
    LET origin == IF Truthy(Get(req.headers, "origin"))
                  THEN req.headers["origin"] ELSE <<"*">>
        f1 == setHeader(Frame(resp, log, FALSE, <<>>),
                        "Access-Control-Allow-Origin", origin)
        f2 == setHeader(f1, "Access-Control-Allow-Credentials", <<"true">>)
    IN setHeader(f2, "Access-Control-Allow-Headers", <<"Accept, ...">>)

\* The check of line 75: the hostname is usable.
ValidHostname(hostname) ==
    ~(~Truthy(hostname) \/ ~Includes(hostname.v, DOMAIN_TOKENS))

\* Lines 58-79: the required url parameter, the hostname check, OPTIONS.
Validate(f, req) ==
    LET url == QueryValue(req.query, "url") IN
    IF url.t # "string"
    THEN stop(f, Envelope(Num(1), <<"Undefined query: url">>, 400, NullData))
    ELSE IF ~ValidHostname(UrlHostname(url.v))
    THEN stop(f, Envelope(Num(10),
                          <<"Empty or invalid URL! Only *.fithou.net.vn are allowed.">>,
                          400, [kind |-> "hostname", hostname |-> UrlHostname(url.v)]))
    ELSE IF req.method = "OPTIONS"
    THEN stop(f, Envelope(Num(0), <<"Options Request">>, 200, NullData))
    ELSE f

\* case "/api/ping"
Ping(f) == stop(f, Envelope(Num(0), <<"Pong!">>, 200, NullData))

\* default: the static page, or the exception of readFileSync.
Fallback(f, readable) ==
    IF readable
    THEN responseEnd(writeHead(f, 200), [kind |-> "html"])
    ELSE Throw(f, PlatformError("Error", "ENOENT: no such file or directory"))

\* The switch without its "/api/ping" case.
RouteWithoutPing(pathname) ==
    CASE pathname = "/api/middleware" -> "middleware"
      [] OTHER -> "default"

\* switch (requestURL.pathname): which case runs.
Route(pathname) ==
    CASE pathname = "/api/middleware" -> "middleware"
      [] pathname = "/api/ping" -> "ping"
      [] OTHER -> "default"

\* handleRequest returns (or rejects) without an outbound call.
Finish(f, unh, file) ==
    /\ pc' = "done"
    /\ response' = f.response
    /\ respLog' = f.log
    /\ sent' = f.sent
    /\ stops' = f.stops
    /\ unhandled' = unh
    /\ fileRead' = file
    /\ outbound' = <<>>
    /\ timer' = "unset"
    /\ aborted' = FALSE
    /\ now' = 0
    /\ upstream' = "none"
    /\ sessionCookieKey' = Undefined
    /\ sessionCookieValue' = Undefined
    /\ sentHeaders' = NoHeaders
    /\ m2sResponse' = NoResponse
    /\ responseHeaders' = NoHeaders

\* Lines 81-145: the headers are transformed, the timer armed, fetch() called,
\* and handleRequest waits for it.
StartFetch(f, req, d, mode) ==
    /\ pc' = "fetching"
    /\ response' = f.response
    /\ respLog' = f.log
    /\ sent' = f.sent
    /\ stops' = f.stops
    /\ unhandled' = FALSE
    /\ fileRead' = "unread"
    /\ sessionCookieKey' =
            SessionCookie(req.headers, req.query, "session-cookie-key", "sesskey")
    /\ sessionCookieValue' =
            SessionCookie(req.headers, req.query, "session-cookie-value", "sessval")
    /\ sentHeaders' = OutboundHeaders(req.headers, req.query)
    /\ timer' = "armed"
    /\ aborted' = FALSE
    /\ now' = 0
    /\ upstream' = mode
    /\ outbound' = <<[url |-> req.query["url"].v, method |-> req.method,
                      headers |-> OutboundHeaders(req.headers, req.query),
                      body |-> d]>>
    /\ m2sResponse' = NoResponse
    /\ responseHeaders' = NoHeaders

\* handleRequest(request, data, response) up to its first await.
HandleRequest(req, d, resp, log) ==
    LET f1 == Begin(req, resp, log) IN
    IF f1.thrown
    THEN Finish(f1, TRUE, "unread")
    ELSE CASE Route(req.pathname) = "middleware" ->
                IF Validate(f1, req).thrown
                THEN Finish(OuterCatch(Validate(f1, req)), FALSE, "unread")
                ELSE \E mode \in UpstreamModes : StartFetch(f1, req, d, mode)
           [] Route(req.pathname) = "ping" ->
                Finish(OuterCatch(Ping(f1)), FALSE, "unread")
           [] OTHER ->
                \E readable \in BOOLEAN :
                    Finish(OuterCatch(Fallback(f1, readable)), FALSE,
                           IF readable THEN "ok" ELSE "failed")

\* ------------------------------------------- app.js: createServer callback

\* Requests that differ in method, path, url and origin, and requests to
\* /api/middleware for an upstream page that differ in their header fields
\* and session parameters.
RoutedRequests ==
    {[method |-> m, pathname |-> p,
      query |-> [url |-> u, sesskey |-> Undefined, sessval |-> Undefined],
      headers |-> h] :
        m \in Methods, p \in Pathnames,
        u \in {Undefined} \cup {Str(x) : x \in UrlValues},
        h \in {NoHeaders, [n \in {"origin"} |-> <<"x">>]}}

ForwardedRequests ==
    {[method |-> "GET", pathname |-> "/api/middleware",
      query |-> [url |-> Str(<<"http://", "fithou", ".", "net", ".", "vn", "/">>),
                 sesskey |-> k, sessval |-> w],
      headers |-> h] :
        k \in SesskeyValues, w \in SessvalValues, h \in HeaderMaps}

Requests == RoutedRequests \cup ForwardedRequests

\* A request arrives: a POST waits for its body, any other method is handled.
Connect ==
    /\ pc = "idle"
    /\ \E req \in Requests :
        /\ request' = req
        /\ data' = NoData
        /\ chunks' = 0
        /\ received' = 0
        /\ IF req.method = "POST"
           THEN /\ pc' = "receiving"
                /\ response' = FreshResponse
                /\ respLog' = <<>>
                /\ sent' = FALSE
                /\ stops' = <<>>
                /\ unhandled' = FALSE
                /\ fileRead' = "unread"
                /\ outbound' = <<>>
                /\ timer' = "unset"
                /\ aborted' = FALSE
                /\ now' = 0
                /\ upstream' = "none"
                /\ sessionCookieKey' = Undefined
                /\ sessionCookieValue' = Undefined
                /\ sentHeaders' = NoHeaders
                /\ m2sResponse' = NoResponse
                /\ responseHeaders' = NoHeaders
           ELSE HandleRequest(req, NoData, FreshResponse, <<>>)

\* request.on("data"): the chunk is appended; past the limit `data` is emptied
\* and the 413 envelope written with the static API.__stop.
OnData ==
    /\ pc = "receiving"
    /\ chunks < MaxChunks
    /\ \E size \in ChunkSizes :
        LET len == data.len + size
            f == API_stop(Frame(response, respLog, sent, stops),
                          Envelope(Num(-1), <<"POST Data Too Large!">>, 413, NullData))
        IN /\ chunks' = chunks + 1
           /\ received' = received + size
           /\ IF len > MaxPostLength
              THEN /\ data' = [defined |-> TRUE, len |-> 0]
                   /\ response' = f.response
                   /\ respLog' = f.log
                   /\ unhandled' = f.thrown
                   /\ pc' = IF f.thrown THEN "done" ELSE pc
              ELSE /\ data' = [defined |-> TRUE, len |-> len]
                   /\ UNCHANGED <<response, respLog, unhandled, pc>>
    /\ UNCHANGED <<request, sent, stops, fileRead, fetchVars>>

\* request.on("end")
OnEnd ==
    /\ pc = "receiving"
    /\ HandleRequest(request, data, response, respLog)
    /\ UNCHANGED reqVars

\* ------------------------------------- app.js: the timer and the fetch

\* Time passes while the timer is pending.
Tick ==
    /\ timer = "armed"
    /\ now < TIMEOUT
    /\ now' = now + TickMs
    /\ UNCHANGED <<pc, reqVars, respVars, fileRead, outbound, timer, aborted,
                   upstream, sessionCookieKey, sessionCookieValue, sentHeaders,
                   m2sResponse, responseHeaders>>

\* The setTimeout callback: abort, then the 408 envelope, the signal caught.
TimerFire ==
    /\ timer = "armed"
    /\ now >= TIMEOUT
    /\ LET f == stop(Frame(response, respLog, sent, stops),
                     Envelope(Num(-1), <<"Request to CTMS timed out after ", "TIMEOUT", "ms!">>, 408,
                              [kind |-> "timeout", timeout |-> TIMEOUT]))
       IN /\ response' = f.response
          /\ respLog' = f.log
          /\ sent' = f.sent
          /\ stops' = f.stops
    /\ aborted' = TRUE
    /\ timer' = "fired"
    /\ UNCHANGED <<pc, reqVars, unhandled, fileRead, outbound, now, upstream,
                   sessionCookieKey, sessionCookieValue, sentHeaders,
                   m2sResponse, responseHeaders>>

\* finally { clearTimeout(cancelTimer) }
clearTimeout(t) == IF t = "armed" THEN "cleared" ELSE t

\* fetch() resolves with the upstream's status and headers: the timer is
\* cleared, the headers are repackaged, and handleRequest waits for the body.
FetchResolve ==
    /\ pc = "fetching"
    /\ ~aborted
    /\ upstream \in {"answer", "stall", "bodyfail"}
    /\ \E up \in UpstreamResponses :
        LET hs == FetchHeaders([n \in up.names |-> <<"x">>], up.cookies) IN
        /\ m2sResponse' = [status |-> up.status, headers |-> hs, raw |-> up.cookies]
        /\ sessionCookieValue' = ExtractSession(hs, sessionCookieKey, sessionCookieValue)
        /\ responseHeaders' = ResponseHeaders(hs)
    /\ timer' = clearTimeout(timer)
    /\ pc' = "reading"
    /\ UNCHANGED <<reqVars, respVars, fileRead, outbound, aborted, now, upstream,
                   sessionCookieKey, sentHeaders>>

\* fetch() rejects, by itself or because the signal was aborted: api.errored,
\* the timer cleared, and line 152 reads m2sResponse.headers of undefined
\* when errored returned.
FetchReject ==
    /\ pc = "fetching"
    /\ aborted \/ upstream = "reject"
    /\ LET e == IF aborted THEN PlatformError("AbortError", "The user aborted a request.")
                ELSE PlatformError("FetchError", "request failed")
           f1 == errored(Frame(response, respLog, sent, stops), e)
           f2 == IF f1.thrown THEN f1
                 ELSE Throw(f1, PlatformError("TypeError",
                                "Cannot read property 'headers' of undefined"))
           f3 == OuterCatch(f2)
       IN /\ response' = f3.response
          /\ respLog' = f3.log
          /\ sent' = f3.sent
          /\ stops' = f3.stops
    /\ timer' = clearTimeout(timer)
    /\ pc' = "done"
    /\ UNCHANGED <<reqVars, unhandled, fileRead, outbound, aborted, now, upstream,
                   sessionCookieKey, sessionCookieValue, sentHeaders,
                   m2sResponse, responseHeaders>>

\* The data of the 'Completed' envelope.
Completed ==
    [kind |-> "completed", session |-> sessionCookieValue,
     headers |-> responseHeaders, sentHeaders |-> sentHeaders,
     response |-> "body"]

\* m2sResponse.text() resolves: the 'Completed' envelope.
BodyDone ==
    /\ pc = "reading"
    /\ upstream = "answer"
    /\ LET f == OuterCatch(stop(Frame(response, respLog, sent, stops),
                                Envelope(Num(0), <<"Completed">>, m2sResponse.status,
                                         Completed)))
       IN /\ response' = f.response
          /\ respLog' = f.log
          /\ sent' = f.sent
          /\ stops' = f.stops
    /\ pc' = "done"
    /\ UNCHANGED <<reqVars, unhandled, fileRead, fetchVars>>

\* m2sResponse.text() rejects: the exception reaches handleRequest's catch.
BodyFail ==
    /\ pc = "reading"
    /\ upstream = "bodyfail"
    /\ LET f == OuterCatch(Throw(Frame(response, respLog, sent, stops),
                                 PlatformError("FetchError", "body failed")))
       IN /\ response' = f.response
          /\ respLog' = f.log
          /\ sent' = f.sent
          /\ stops' = f.stops
    /\ pc' = "done"
    /\ UNCHANGED <<reqVars, unhandled, fileRead, fetchVars>>

\* ------------------------------------------------------- specification

Init ==
    /\ pc = "idle"
    /\ request = NoRequest
    /\ data = NoData
    /\ chunks = 0
    /\ received = 0
    /\ response = FreshResponse
    /\ respLog = <<>>
    /\ sent = FALSE
    /\ stops = <<>>
    /\ unhandled = FALSE
    /\ fileRead = "unread"
    /\ outbound = <<>>
    /\ timer = "unset"
    /\ aborted = FALSE
    /\ now = 0
    /\ upstream = "none"
    /\ sessionCookieKey = Undefined
    /\ sessionCookieValue = Undefined
    /\ sentHeaders = NoHeaders
    /\ m2sResponse = NoResponse
    /\ responseHeaders = NoHeaders

Next ==
    \/ Connect
    \/ OnData
    \/ OnEnd
    \/ Tick
    \/ TimerFire
    \/ FetchResolve
    \/ FetchReject
    \/ BodyDone
    \/ BodyFail

Spec == Init /\ [][Next]_vars

\* The steps the platform takes by itself: the event loop runs a callback that
\* is ready, the body's end is delivered, time passes.
Scheduled ==
    \/ OnEnd
    \/ Tick
    \/ TimerFire
    \/ FetchResolve
    \/ FetchReject
    \/ BodyDone
    \/ BodyFail

\* No request is left with a scheduled step that never runs.
FairSpec == Spec /\ WF_vars(Scheduled)

\* ----------------------------------------------------------------- claims

MIDDLEWARE == "/api/middleware"
PING == "/api/ping"

\* An outbound call was issued for the request.
Forwarded == outbound # <<>>
\* The client was sent the 'Completed' envelope.
CompletedSent ==
    /\ response.finished
    /\ response.body.kind = "json"
    /\ response.body.description = <<"Completed">>
\* The client was sent the 413 envelope.
TooLargeSent ==
    /\ response.finished
    /\ response.body = Envelope(Num(-1), <<"POST Data Too Large!">>, 413, NullData)

\* host is fithou.net.vn or a subdomain of it.
AllowListed(host) ==
    \/ host = DOMAIN_TOKENS
    \/ /\ Len(host) > Len(DOMAIN_TOKENS) + 1
       /\ SubSeq(host, Len(host) - Len(DOMAIN_TOKENS), Len(host)) = <<".">> \o DOMAIN_TOKENS

\* The request names, in a url parameter given once, a host outside the allow-list.
OutsideAllowList ==
    /\ request.pathname = MIDDLEWARE
    /\ request.query["url"].t = "string"
    /\ LET hostname == UrlHostname(request.query["url"].v) IN
       hostname = Null \/ ~AllowListed(hostname.v)

\* C1: a request to /api/middleware whose url has an empty hostname, or one that
\* is neither fithou.net.vn nor a subdomain of it, never causes an outbound
\* call, and once handleRequest has handled it the answer is the code 10 /
\* HTTP 400 envelope.
C1_AllowListOnly ==
    OutsideAllowList =>
        /\ ~Forwarded
        /\ (pc = "done" /\ ~unhandled) =>
                /\ response.finished
                /\ response.statusCode = 400
                /\ response.body.kind = "json"
                /\ response.body.code = Num(10)

\* C2: every request that passes validation (its outbound call is issued) is
\* eventually answered, whatever the upstream does.
C2_TimeoutBounded == (pc = "fetching") ~> response.finished

\* C3: no denied header is among the headers sent upstream, none of them (nor
\* content-type) is among the headers relayed in the 'Completed' envelope, and
\* every other upstream header is relayed unchanged.
C3_DenyList ==
    /\ Forwarded =>
            /\ DOMAIN outbound[1].headers \cap IGNORE_HEADERS = {}
            /\ DOMAIN sentHeaders \cap IGNORE_HEADERS = {}
    /\ CompletedSent =>
            /\ DOMAIN response.body.data.sentHeaders \cap IGNORE_HEADERS = {}
            /\ DOMAIN response.body.data.headers
                    \cap (IGNORE_HEADERS \cup {"content-type"}) = {}
            /\ \A n \in DOMAIN m2sResponse.headers \ (IGNORE_HEADERS \cup {"content-type"}) :
                    /\ n \in DOMAIN response.body.data.headers
                    /\ response.body.data.headers[n] = m2sResponse.headers[n]

\* C3's case: a request carrying content-length was forwarded and the upstream
\* answered with location and date.
C3_Witness ==
    /\ CompletedSent
    /\ "content-length" \in DOMAIN request.headers
    /\ {"location", "date"} \subseteq DOMAIN m2sResponse.headers
    /\ "date" \in DOMAIN response.body.data.headers

ControlHeaders ==
    {"session-cookie-key", "session-cookie-value", "set-host", "set-origin", "set-referer"}

Moved(from, to) ==
    from \in DOMAIN request.headers =>
        /\ to \in DOMAIN outbound[1].headers
        /\ outbound[1].headers[to] = request.headers[from]

\* C4: for every forwarded request a present Set-Host, Set-Origin or
\* Set-Referer replaces host, origin or referer, and no control header is among
\* the headers sent upstream, whatever its value.
C4_ControlHeadersMoved ==
    Forwarded =>
        /\ DOMAIN outbound[1].headers \cap ControlHeaders = {}
        /\ Moved("set-host", "host")
        /\ Moved("set-origin", "origin")
        /\ Moved("set-referer", "referer")

\* What the request supplies for the session key or value: the control header,
\* or the query parameter when the header is absent.
Supplied(header, param) ==
    IF header \in DOMAIN request.headers THEN Str(request.headers[header])
    ELSE request.query[param]

\* The key and the value are each a string or missing, and a key header is not empty.
PlainSession ==
    /\ Supplied("session-cookie-key", "sesskey").t \in {"string", "undefined"}
    /\ Supplied("session-cookie-value", "sessval").t \in {"string", "undefined"}
    /\ Supplied("session-cookie-key", "sesskey") # Str(<<>>)

\* The cookie header the claim expects upstream, as a header map.
ExpectedCookie ==
    LET key == Supplied("session-cookie-key", "sesskey")
        val == Supplied("session-cookie-value", "sessval")
        pair == key.v \o <<"=">> \o val.v
    IN IF key.t = "string" /\ val.t = "string" /\ val.v # <<>>
       THEN IF "cookie" \in DOMAIN request.headers
            THEN [n \in {"cookie"} |-> request.headers["cookie"] \o <<"; ">> \o pair]
            ELSE [n \in {"cookie"} |-> pair]
       ELSE [n \in {"cookie"} \cap DOMAIN request.headers |-> request.headers[n]]

\* C5: for every forwarded request the outbound cookie header is key=value,
\* appended with "; " to an inbound cookie header, when the key and a non-empty
\* value are supplied by header or query parameter, and the inbound cookie
\* header unchanged when one of them is missing.
C5_SessionCookieInjected ==
    (Forwarded /\ PlainSession) =>
        [n \in {"cookie"} \cap DOMAIN outbound[1].headers |-> outbound[1].headers[n]]
            = ExpectedCookie

\* The name and the value of the cookie a Set-Cookie line sets: the tokens
\* before and after the first "=" of its first "; "-separated part.
CookieName(line) == Split(line, "; ")[1][1]
CookieValue(line) ==
    LET first == Split(line, "; ")[1] IN SubSeq(first, 3, Len(first))

\* C6: in the 'Completed' envelope data.session is the value an upstream
\* Set-Cookie line assigns to the cookie named by the session key, when there is
\* such a line, and the session value of the request otherwise.
C6_SessionExtracted ==
    (CompletedSent /\ sessionCookieKey.t = "string" /\ sessionCookieKey.v # <<>>) =>
        LET lines == {m2sResponse.raw[i] : i \in DOMAIN m2sResponse.raw}
            setting == {l \in lines : <<CookieName(l)>> = sessionCookieKey.v}
        IN IF setting # {}
           THEN response.body.data.session \in {Str(CookieValue(l)) : l \in setting}
           ELSE response.body.data.session =
                    SessionCookie(request.headers, request.query,
                                  "session-cookie-value", "sessval")

\* The one envelope of the request is the HTTP 500 envelope of this exception.
OnlyErrorEnvelope(e) ==
    /\ response.finished
    /\ response.statusCode = 500
    /\ response.body =
            Envelope(Name(e.name), <<e.message, " tại ", "stack[1]">>, 500,
                     [kind |-> "stacktrace"])
    /\ stops = <<response.body>>

\* C7: when fetch() rejects, reading the upstream body fails or
\* readFileSync throws, with nothing sent before, the client receives exactly
\* one HTTP 500 envelope whose code and description are the exception's, and no
\* 'Completed' envelope.
C7_ExceptionsMapped ==
    /\ (pc = "done" /\ upstream = "reject" /\ ~aborted) =>
            OnlyErrorEnvelope(PlatformError("FetchError", "request failed"))
    /\ (pc = "done" /\ upstream = "bodyfail" /\ ~aborted) =>
            OnlyErrorEnvelope(PlatformError("FetchError", "body failed"))
    /\ fileRead = "failed" =>
            OnlyErrorEnvelope(PlatformError("Error", "ENOENT: no such file or directory"))

\* C7's case: the upstream body failed after its headers had arrived.
C7_Witness ==
    /\ pc = "done"
    /\ upstream = "bodyfail"
    /\ ~aborted
    /\ m2sResponse.status = 200
    /\ response.statusCode = 500
    /\ response.body.code = Name("FetchError")

Pong == Envelope(Num(0), <<"Pong!">>, 200, NullData)

\* C8 as stated: once handled, /api/ping is answered with the 'Pong!' envelope
\* and every path other than /api/middleware and /api/ping with the static
\* page, both with HTTP 200 and neither with an outbound call.
C8_DispatchAlways ==
    /\ request.pathname # MIDDLEWARE => ~Forwarded
    /\ (pc = "done" /\ request.pathname = PING) =>
            /\ response.statusCode = 200
            /\ response.body = Pong
    /\ (pc = "done" /\ request.pathname \notin {MIDDLEWARE, PING}) =>
            /\ response.statusCode = 200
            /\ response.body = [kind |-> "html"]

\* C8 amended: the same, except that a POST whose body exceeded the limit is
\* answered with the 413 envelope alone, and that the static page is replaced
\* by an HTTP 500 error envelope when default.html cannot be read.
C8_Dispatch ==
    /\ request.pathname # MIDDLEWARE => ~Forwarded
    /\ (pc = "done" /\ request.pathname # MIDDLEWARE /\ received > MaxPostLength) =>
            TooLargeSent
    /\ (pc = "done" /\ request.pathname = PING /\ received <= MaxPostLength) =>
            /\ response.statusCode = 200
            /\ response.body = Pong
    /\ (pc = "done" /\ request.pathname \notin {MIDDLEWARE, PING}
            /\ received <= MaxPostLength) =>
            IF fileRead = "failed"
            THEN /\ response.statusCode = 500
                 /\ response.body.kind = "json"
            ELSE /\ response.statusCode = 200
                 /\ response.body = [kind |-> "html"]

\* C8's case: a POST to /api/ping with a body within the limit was answered.
C8_Witness ==
    /\ pc = "done"
    /\ request.pathname = PING
    /\ request.method = "POST"
    /\ received > 0
    /\ received <= MaxPostLength
    /\ request.query["url"] # Undefined
    /\ response.body = Pong

\* C9: api.stop() hands at most one envelope to API.__stop per request, and once
\* api.sent is true the response is that envelope with its status.
C9_AtMostOneEnvelope ==
    /\ Len(stops) <= 1
    /\ sent =>
            /\ Len(stops) = 1
            /\ response.finished
            /\ response.body = stops[1]
            /\ response.statusCode = stops[1].status

\* C9's case: the timer fired and wrote the 408, then the aborted fetch()
\* rejected and handleRequest ended.
C9_Witness ==
    /\ pc = "done"
    /\ timer = "fired"
    /\ aborted
    /\ sent
    /\ response.statusCode = 408

\* C10: once the 413 envelope has been sent, no later step of the request calls
\* anything on the response or issues an outbound call.
C10_FinishedBy413 ==
    [][TooLargeSent => (respLog' = respLog /\ outbound' = outbound)]_vars

=============================================================================
